---- MODULE Spec2Model ----
(***************************************************************************)
(* Model of the Pub/Sub Lite consumer of apm-queue                         *)
(* (src/pubsublite/consumer.go).                                           *)
(*                                                                         *)
(* Two parts of the program are modelled:                                  *)
(*                                                                         *)
(*  - consumer.processMessage, the per-message handler the transport calls *)
(*    from several goroutines at once.  Its only shared state is the       *)
(*    sync.Map c.failed; every access to that map is one atomic step.      *)
(*                                                                         *)
(*  - Consumer.Run / Consumer.Close, the supervisor that starts one        *)
(*    receive loop per subscription in an errgroup.                        *)
(*                                                                         *)
(* The transport (pscompat.SubscriberClient), the decoder and the batch    *)
(* processor are the environment: their results are nondeterministic.      *)
(***************************************************************************)
EXTENDS Integers, Sequences, FiniteSets, Bags, TLC

\* ------------------------------------------------------------------ bounds

\* Concurrent processMessage invocations the transport drives at once.
MaxInFlight == 2

\* Deliveries of one message followed in the redelivery scenario (HistSpec).
MaxDeliveries == 4

\* ------------------------------------------------------- program constants

\* consumer.go:285  `if attempt > 2`
MaxRetries == 2

\* apmqueue.DeliveryType values accepted by Validate (consumer.go:113-118).
AtMostOnceDeliveryType == "AtMostOnce"
AtLeastOnceDeliveryType == "AtLeastOnce"
DeliveryTypes == {AtMostOnceDeliveryType, AtLeastOnceDeliveryType}

\* The per-subscription consumers of one Consumer (one per cfg.Topics entry,
\* consumer.go:158-186) and the message identifiers the transport delivers.
Consumers == {"sub1", "sub2"}
MsgIds == {"m1", "m2"}

VARIABLES
    delivery,   \* cfg.Delivery, copied into every consumer (consumer.go:172)
    failed,     \* failed[c]: consumer c's sync.Map, message id -> attempt
    inv,        \* bag of the processMessage invocations in flight
    hist,       \* completed invocations of the followed message (HistSpec)
    unresolved, \* the followed message has a processing failure that no
                \* Ack and no Nack has followed: "yes" or "no", or
                \* "untracked" where this is not followed (EventSpec)
    stopSubscriber, \* Consumer.stopSubscriber: 0 is nil, r the cancel
                    \* function of the context the r-th Run call derived
    run,        \* run[r]: the r-th call of Consumer.Run
    ctx,        \* ctx[r]: the contexts the r-th Run call derived
    gErr,       \* gErr[r]: the errgroup's first error ("nil" when none)
    loop,       \* loop[r][c]: the receive loop Run r started for consumer c
    reported,   \* reported[r]: the non-nil errors the loops of Run r
                \* returned to the errgroup, in order
    callerDone, \* the context passed to Run has been cancelled
    closeCalls, \* calls of Consumer.Close made so far
    panicked,   \* a call has panicked (nil function call in Close)
    cfg,        \* the ConsumerConfig given to NewConsumer
    valResult   \* whether cfg.Validate() has been called, and the errors
                \* joined in what it returned (none: it returned nil)

msgVars == <<delivery, failed, inv, hist, unresolved>>
runVars == <<stopSubscriber, run, ctx, gErr, loop, reported, callerDone,
             closeCalls, panicked>>
cfgVars == <<cfg, valResult>>
vars == <<delivery, failed, inv, hist, unresolved, stopSubscriber, run, ctx,
          gErr, loop, reported, callerDone, closeCalls, panicked, cfg,
          valResult>>

\* ----------------------------------------------------------------- sync.Map

EmptyMap == [k \in {} |-> 0]

Put(m, k, v) == [x \in (DOMAIN m) \cup {k} |-> IF x = k THEN v ELSE m[x]]

\* sync.Map.LoadOrStore: the existing value if present (loaded), otherwise
\* stores and returns the given value.  One atomic operation.
LoadOrStore(m, k, v) ==
    IF k \in DOMAIN m
    THEN [actual |-> m[k], loaded |-> TRUE, map |-> m]
    ELSE [actual |-> v, loaded |-> FALSE, map |-> Put(m, k, v)]

\* sync.Map.Store
Store(m, k, v) == Put(m, k, v)

\* sync.Map.Delete
Delete(m, k) == [x \in (DOMAIN m) \ {k} |-> m[x]]

\* The entry of key k as a set: {} when absent, {n} when present.
Entry(m, k) == IF k \in DOMAIN m THEN {m[k]} ELSE {}

\* ------------------------------------------------------------ processMessage

\* One invocation of processMessage: its position, its message, its locals
\* (err, attempt) and what it has done to the message so far. startNo, alone
\* and before are bookkeeping of the redelivery scenario (HistSpec).
NewInv(c, id) ==
    [pc |-> "decode", c |-> c, id |-> id, decodeErr |-> FALSE,
     err |-> "unset", attempt |-> 0, acks |-> 0, nacks |-> 0,
     procCalls |-> 0, recov |-> 0, startNo |-> 0, alone |-> TRUE,
     before |-> {}]

InFlight == BagToSet(inv)

\* The new value of unresolved: v where the followed message's failures
\* are tracked.
Track(v) == IF unresolved = "untracked" THEN unresolved ELSE v

\* Invocation r becomes r2.
Update(r, r2) == inv' = (inv (-) SetToBag({r})) (+) SetToBag({r2})

\* The transport calls processMessage(ctx, msg) for message id of consumer
\* c's subscription, on one more goroutine.
Deliver(c, id) ==
    /\ BagCardinality(inv) < MaxInFlight
    /\ inv' = inv (+) SetToBag({NewInv(c, id)})
    /\ UNCHANGED <<delivery, failed, hist, unresolved, runVars, cfgVars>>

\* DecodeFail as it would be if processMessage went on after the Nack.
DecodeFail_NoReturn(r) ==
    /\ r.pc = "decode"
    /\ Update(r, [r EXCEPT !.decodeErr = TRUE, !.nacks = @ + 1,
                           !.pc = "switch"])
    /\ UNCHANGED <<delivery, failed, hist, unresolved, runVars, cfgVars>>

\* DecodeFail as it would be if a decode failure went through the retry
\* logic: the failure is counted in the tracker.
DecodeFail_Retry(r) ==
    /\ r.pc = "decode"
    /\ failed' = [failed EXCEPT ![r.c] = Store(@, r.id, 1)]
    /\ Update(r, [r EXCEPT !.decodeErr = TRUE, !.nacks = @ + 1,
                           !.pc = "done"])
    /\ UNCHANGED <<delivery, hist, unresolved, runVars, cfgVars>>

\* consumer.go:258-269: Decode fails; the deferred msg.Nack() runs at return.
DecodeFail(r) ==
    /\ r.pc = "decode"
    /\ Update(r, [r EXCEPT !.decodeErr = TRUE, !.nacks = @ + 1,
                           !.pc = "done"])
    /\ UNCHANGED <<delivery, failed, hist, unresolved, runVars, cfgVars>>

\* consumer.go:258, 270-272: Decode succeeds.
DecodeOk(r) ==
    /\ r.pc = "decode"
    /\ Update(r, [r EXCEPT !.pc = "switch"])
    /\ UNCHANGED <<delivery, failed, hist, unresolved, runVars, cfgVars>>

\* SwitchDelivery as it would be if both delivery types acked at once.
SwitchDelivery_AlwaysAck(r) ==
    /\ r.pc = "switch"
    /\ Update(r, [r EXCEPT !.acks = @ + 1, !.pc = "process"])
    /\ UNCHANGED <<delivery, failed, hist, unresolved, runVars, cfgVars>>

\* SwitchDelivery as it would be without the msg.Ack() of the AtMostOnce
\* case.
SwitchDelivery_NoAck(r) ==
    /\ r.pc = "switch"
    /\ Update(r, [r EXCEPT !.pc = "process"])
    /\ UNCHANGED <<delivery, failed, hist, unresolved, runVars, cfgVars>>

\* consumer.go:273-302: the delivery switch. AtMostOnce acks at once;
\* AtLeastOnce registers the deferred function.
SwitchDelivery(r) ==
    /\ r.pc = "switch"
    /\ Update(r, [r EXCEPT !.acks = IF delivery = AtMostOnceDeliveryType
                                    THEN @ + 1 ELSE @,
                           !.pc = "process"])
    /\ UNCHANGED <<delivery, failed, hist, unresolved, runVars, cfgVars>>

\* ProcessBatch as it would be if the deferred function were registered for
\* both delivery types.
ProcessBatch_Deferred(r, e) ==
    /\ r.pc = "process"
    /\ Update(r, [r EXCEPT !.err = e, !.procCalls = @ + 1,
                           !.pc = "deferred"])
    /\ unresolved' = IF e = "error" THEN Track("yes") ELSE unresolved
    /\ UNCHANGED <<delivery, failed, hist, runVars, cfgVars>>

\* consumer.go:303-313: ProcessBatch returns e; processMessage returns, and
\* under AtLeastOnce the deferred function runs next.
ProcessBatch(r, e) ==
    /\ r.pc = "process"
    /\ Update(r, [r EXCEPT !.err = e, !.procCalls = @ + 1,
                           !.pc = IF delivery = AtLeastOnceDeliveryType
                                  THEN "deferred" ELSE "done"])
    /\ unresolved' = IF e = "error" THEN Track("yes") ELSE unresolved
    /\ UNCHANGED <<delivery, failed, hist, runVars, cfgVars>>

\* DeferredLoadOrStore with the ceiling one higher (attempt > 3).
DeferredLoadOrStore_LateCeiling(r) ==
    /\ r.pc = "deferred"
    /\ r.err = "error"
    /\ LET ls == LoadOrStore(failed[r.c], r.id, 1)
           attempt == IF ls.loaded THEN 1 + ls.actual ELSE 1
       IN /\ failed' = [failed EXCEPT ![r.c] = ls.map]
          /\ Update(r, [r EXCEPT !.attempt = attempt,
                                 !.pc = IF attempt > MaxRetries + 1
                                        THEN "nack" ELSE "store"])
    /\ UNCHANGED <<delivery, hist, unresolved, runVars, cfgVars>>

\* DeferredLoadOrStore with the ceiling off by one (attempt >= 2).
DeferredLoadOrStore_OffByOne(r) ==
    /\ r.pc = "deferred"
    /\ r.err = "error"
    /\ LET ls == LoadOrStore(failed[r.c], r.id, 1)
           attempt == IF ls.loaded THEN 1 + ls.actual ELSE 1
       IN /\ failed' = [failed EXCEPT ![r.c] = ls.map]
          /\ Update(r, [r EXCEPT !.attempt = attempt,
                                 !.pc = IF attempt >= MaxRetries
                                        THEN "nack" ELSE "store"])
    /\ UNCHANGED <<delivery, hist, unresolved, runVars, cfgVars>>

\* consumer.go:280-285: err != nil; attempt := 1; LoadOrStore; attempt += a
\* when loaded; then the comparison with the ceiling.
DeferredLoadOrStore(r) ==
    /\ r.pc = "deferred"
    /\ r.err = "error"
    /\ LET ls == LoadOrStore(failed[r.c], r.id, 1)
           attempt == IF ls.loaded THEN 1 + ls.actual ELSE 1
       IN /\ failed' = [failed EXCEPT ![r.c] = ls.map]
          /\ Update(r, [r EXCEPT !.attempt = attempt,
                                 !.pc = IF attempt > MaxRetries
                                        THEN "nack" ELSE "store"])
    /\ UNCHANGED <<delivery, hist, unresolved, runVars, cfgVars>>

\* consumer.go:286: msg.Nack()
DeferredNack(r) ==
    /\ r.pc = "nack"
    /\ Update(r, [r EXCEPT !.nacks = @ + 1, !.pc = "delete"])
    /\ unresolved' = Track("no")
    /\ UNCHANGED <<delivery, failed, hist, runVars, cfgVars>>

\* DeferredDelete as it would be if it emptied the consumer's tracker.
DeferredDelete_Clear(r) ==
    /\ r.pc = "delete"
    /\ failed' = [failed EXCEPT ![r.c] = EmptyMap]
    /\ Update(r, [r EXCEPT !.pc = "done"])
    /\ UNCHANGED <<delivery, hist, unresolved, runVars, cfgVars>>

\* DeferredDelete as it would be if the entry were left in the tracker.
DeferredDelete_Skip(r) ==
    /\ r.pc = "delete"
    /\ Update(r, [r EXCEPT !.pc = "done"])
    /\ UNCHANGED <<delivery, failed, hist, unresolved, runVars, cfgVars>>

\* consumer.go:287-288 and 300: c.failed.Delete(msg.ID); return
DeferredDelete(r) ==
    /\ r.pc = "delete"
    /\ failed' = [failed EXCEPT ![r.c] = Delete(@, r.id)]
    /\ Update(r, [r EXCEPT !.pc = "done"])
    /\ UNCHANGED <<delivery, hist, unresolved, runVars, cfgVars>>

\* consumer.go:290-291: c.failed.Store(msg.ID, attempt); return
DeferredStore(r) ==
    /\ r.pc = "store"
    /\ failed' = [failed EXCEPT ![r.c] = Store(@, r.id, r.attempt)]
    /\ Update(r, [r EXCEPT !.pc = "done"])
    /\ UNCHANGED <<delivery, hist, unresolved, runVars, cfgVars>>

\* consumer.go:293-299: err == nil; the recovery notice is logged, then
\* msg.Ack().
DeferredAck(r) ==
    /\ r.pc = "deferred"
    /\ r.err = "nil"
    /\ Update(r, [r EXCEPT !.recov = @ + 1, !.acks = @ + 1,
                           !.pc = "delete"])
    /\ unresolved' = Track("no")
    /\ UNCHANGED <<delivery, failed, hist, runVars, cfgVars>>

\* processMessage has returned.
Return(r) ==
    /\ r.pc = "done"
    /\ inv' = inv (-) SetToBag({r})
    /\ UNCHANGED <<delivery, failed, hist, unresolved, runVars, cfgVars>>

MsgInit ==
    /\ delivery \in DeliveryTypes
    /\ failed = [c \in Consumers |-> EmptyMap]
    /\ inv = EmptyBag
    /\ hist = <<>>
    /\ unresolved = "untracked"

\* ------------------------------------------- redelivery of one message

\* Invocations started so far in the redelivery scenario.
Started == Len(hist) + BagCardinality(inv)

Outcome(r) ==
    IF r.decodeErr THEN "decodeErr"
    ELSE IF r.err = "nil" THEN "ok" ELSE "fail"

\* The message whose deliveries are followed.
FollowedConsumer == "sub1"
FollowedId == "m1"

\* The transport delivers, or redelivers, the followed message.
HistDeliver ==
    /\ Started < MaxDeliveries
    /\ BagCardinality(inv) < MaxInFlight
    /\ inv' = inv (+) SetToBag({[NewInv(FollowedConsumer, FollowedId) EXCEPT
                 !.startNo = Started + 1,
                 !.alone = (inv = EmptyBag),
                 !.before = Entry(failed[FollowedConsumer], FollowedId)]})
    /\ UNCHANGED <<delivery, failed, hist, unresolved, runVars, cfgVars>>

\* processMessage has returned; what it did is appended to hist. The entry
\* is sequential when no other invocation ran during this one.
HistReturn(r) ==
    /\ r.pc = "done"
    /\ inv' = inv (-) SetToBag({r})
    /\ hist' = Append(hist,
                 [outcome |-> Outcome(r),
                  acks |-> r.acks, nacks |-> r.nacks,
                  procCalls |-> r.procCalls, recov |-> r.recov,
                  before |-> r.before,
                  after |-> Entry(failed[r.c], r.id),
                  sequential |-> (r.alone /\ r.startNo = Started)])
    /\ UNCHANGED <<delivery, failed, unresolved, runVars, cfgVars>>

\* ------------------------------------------------------ Consumer.Run / Close

\* Calls of Run made on the one Consumer, and calls of Close.
MaxRunCalls == 2
MaxCloseCalls == 2

RunCalls == 1..MaxRunCalls

\* c.consumers, in the order of cfg.Topics (consumer.go:158, 220).
ConsumerOrder == <<"sub1", "sub2">>

ErrAlreadyStarted == "pubsublite: consumer already started"
ErrBackendUnavailable == "ErrBackendUnavailable"
WrappedUnavailable == "wrapped(ErrBackendUnavailable)"

\* What a call of SubscriberClient.Receive can return.
ReceiveErrs ==
    {"nil", ErrBackendUnavailable, WrappedUnavailable, "errA", "errB"}

\* errors.Is(err, pscompat.ErrBackendUnavailable): the sentinel itself or an
\* error wrapping it.
IsBackendUnavailable(e) == e \in {ErrBackendUnavailable, WrappedUnavailable}

NoCtx == [run |-> FALSE, group |-> FALSE]
Cancelled == [run |-> TRUE, group |-> TRUE]

IdleRun == [pc |-> "idle", result |-> "unset", spawned |-> 0]
NoLoop == [pc |-> "none", err |-> "unset"]

\* The r-th Run call derived its contexts (it passed the guard).
HasCtx(r) == run[r].pc \in {"spawn", "wait"}
                 \/ (run[r].pc = "returned"
                       /\ run[r].result # ErrAlreadyStarted)

RunInit ==
    /\ stopSubscriber = 0
    /\ run = [r \in RunCalls |-> IdleRun]
    /\ ctx = [r \in RunCalls |-> NoCtx]
    /\ gErr = [r \in RunCalls |-> "nil"]
    /\ loop = [r \in RunCalls |-> [c \in Consumers |-> NoLoop]]
    /\ reported = [r \in RunCalls |-> <<>>]
    /\ callerDone = FALSE
    /\ closeCalls = 0
    /\ panicked = FALSE

\* RunStart without the `c.stopSubscriber != nil` guard.
RunStart_NoGuard(r) ==
    /\ ~panicked
    /\ run[r].pc = "idle"
    /\ \A q \in RunCalls : q < r => run[q].pc # "idle"
    /\ stopSubscriber' = r
    /\ ctx' = [ctx EXCEPT ![r] = [run |-> callerDone, group |-> callerDone]]
    /\ run' = [run EXCEPT ![r].pc = "spawn"]
    /\ UNCHANGED <<gErr, loop, reported, callerDone, closeCalls, panicked,
                   msgVars, cfgVars>>

\* consumer.go:210-219: the r-th call of Run, under c.mu: the guard, then
\* context.WithCancel and errgroup.WithContext.
RunStart(r) ==
    /\ ~panicked
    /\ run[r].pc = "idle"
    /\ \A q \in RunCalls : q < r => run[q].pc # "idle"
    /\ IF stopSubscriber # 0
       THEN /\ run' = [run EXCEPT ![r].pc = "returned",
                                  ![r].result = ErrAlreadyStarted]
            /\ UNCHANGED <<stopSubscriber, ctx>>
       ELSE /\ stopSubscriber' = r
            /\ ctx' = [ctx EXCEPT ![r] = [run |-> callerDone,
                                          group |-> callerDone]]
            /\ run' = [run EXCEPT ![r].pc = "spawn"]
    /\ UNCHANGED <<gErr, loop, reported, callerDone, closeCalls, panicked,
                   msgVars, cfgVars>>

\* consumer.go:220-236: the next g.Go: the receive loop of the next consumer
\* starts; after the last one Run goes on to g.Wait().
RunSpawn(r) ==
    /\ ~panicked
    /\ run[r].pc = "spawn"
    /\ LET c == ConsumerOrder[run[r].spawned + 1]
       IN loop' = [loop EXCEPT ![r][c].pc = "receive"]
    /\ run' = [run EXCEPT ![r].spawned = @ + 1,
                          ![r].pc = IF run[r].spawned + 1 = Len(ConsumerOrder)
                                    THEN "wait" ELSE "spawn"]
    /\ UNCHANGED <<stopSubscriber, ctx, gErr, reported, callerDone,
                   closeCalls, panicked, msgVars, cfgVars>>

\* consumer.go:224: consumer.Receive returns e.
ReceiveReturn(r, c, e) ==
    /\ ~panicked
    /\ loop[r][c].pc = "receive"
    /\ loop' = [loop EXCEPT ![r][c] = [pc |-> "returned", err |-> e]]
    /\ UNCHANGED <<stopSubscriber, run, ctx, gErr, reported, callerDone,
                   closeCalls, panicked, msgVars, cfgVars>>

\* consumer.go:224: the context of Receive is done, and Receive returns nil
\* (the transport's contract).
ReceiveCtxDone(r, c) ==
    /\ ctx[r].group
    /\ ReceiveReturn(r, c, "nil")

\* LoopCheck comparing err with the sentinel by == instead of errors.Is.
LoopCheck_SentinelOnly(r, c) ==
    /\ ~panicked
    /\ loop[r][c].pc = "returned"
    /\ LET err == loop[r][c].err
       IN IF err = ErrBackendUnavailable
          THEN /\ loop' = [loop EXCEPT ![r][c].pc = "receive"]
               /\ UNCHANGED <<gErr, ctx, reported>>
          ELSE /\ loop' = [loop EXCEPT ![r][c].pc = "done"]
               /\ IF err = "nil"
                  THEN UNCHANGED <<gErr, ctx, reported>>
                  ELSE /\ gErr' = [gErr EXCEPT ![r] =
                                      IF @ = "nil" THEN err ELSE @]
                       /\ ctx' = [ctx EXCEPT ![r].group = TRUE]
                       /\ reported' = [reported EXCEPT ![r] = Append(@, err)]
    /\ UNCHANGED <<stopSubscriber, run, callerDone, closeCalls, panicked,
                   msgVars, cfgVars>>

\* LoopCheck with a group that keeps the last error instead of the first.
LoopCheck_LastError(r, c) ==
    /\ ~panicked
    /\ loop[r][c].pc = "returned"
    /\ LET err == loop[r][c].err
       IN IF IsBackendUnavailable(err)
          THEN /\ loop' = [loop EXCEPT ![r][c].pc = "receive"]
               /\ UNCHANGED <<gErr, ctx, reported>>
          ELSE /\ loop' = [loop EXCEPT ![r][c].pc = "done"]
               /\ IF err = "nil"
                  THEN UNCHANGED <<gErr, ctx, reported>>
                  ELSE /\ gErr' = [gErr EXCEPT ![r] = err]
                       /\ ctx' = [ctx EXCEPT ![r].group = TRUE]
                       /\ reported' = [reported EXCEPT ![r] = Append(@, err)]
    /\ UNCHANGED <<stopSubscriber, run, callerDone, closeCalls, panicked,
                   msgVars, cfgVars>>

\* consumer.go:230-233 and errgroup.Group.Go: on the transient error the
\* loop calls Receive again; otherwise it returns err to the errgroup, which
\* keeps the first non-nil error and cancels the group's context.
LoopCheck(r, c) ==
    /\ ~panicked
    /\ loop[r][c].pc = "returned"
    /\ LET err == loop[r][c].err
       IN IF IsBackendUnavailable(err)
          THEN /\ loop' = [loop EXCEPT ![r][c].pc = "receive"]
               /\ UNCHANGED <<gErr, ctx, reported>>
          ELSE /\ loop' = [loop EXCEPT ![r][c].pc = "done"]
               /\ IF err = "nil"
                  THEN UNCHANGED <<gErr, ctx, reported>>
                  ELSE /\ gErr' = [gErr EXCEPT ![r] =
                                      IF @ = "nil" THEN err ELSE @]
                       /\ ctx' = [ctx EXCEPT ![r].group = TRUE]
                       /\ reported' = [reported EXCEPT ![r] = Append(@, err)]
    /\ UNCHANGED <<stopSubscriber, run, callerDone, closeCalls, panicked,
                   msgVars, cfgVars>>

\* RunWait as it would be if Wait returned as soon as a loop had reported an
\* error.
RunWait_FirstError(r) ==
    /\ ~panicked
    /\ run[r].pc = "wait"
    /\ \/ gErr[r] # "nil"
       \/ \A c \in Consumers : loop[r][c].pc = "done"
    /\ run' = [run EXCEPT ![r].pc = "returned", ![r].result = gErr[r]]
    /\ ctx' = [ctx EXCEPT ![r].group = TRUE]
    /\ UNCHANGED <<stopSubscriber, gErr, loop, reported, callerDone,
                   closeCalls, panicked, msgVars, cfgVars>>

\* consumer.go:237: g.Wait() returns once every goroutine of the group has
\* returned; it cancels the group's context and returns the first error.
RunWait(r) ==
    /\ ~panicked
    /\ run[r].pc = "wait"
    /\ \A c \in Consumers : loop[r][c].pc = "done"
    /\ run' = [run EXCEPT ![r].pc = "returned", ![r].result = gErr[r]]
    /\ ctx' = [ctx EXCEPT ![r].group = TRUE]
    /\ UNCHANGED <<stopSubscriber, gErr, loop, reported, callerDone,
                   closeCalls, panicked, msgVars, cfgVars>>

\* Close as it would be if it cleared the stored cancellation function.
Close_Reset ==
    /\ ~panicked
    /\ closeCalls < MaxCloseCalls
    /\ closeCalls' = closeCalls + 1
    /\ IF stopSubscriber = 0
       THEN /\ panicked' = TRUE
            /\ UNCHANGED <<ctx, stopSubscriber>>
       ELSE /\ ctx' = [ctx EXCEPT ![stopSubscriber] = Cancelled]
            /\ stopSubscriber' = 0
            /\ UNCHANGED panicked
    /\ UNCHANGED <<run, gErr, loop, reported, callerDone, msgVars, cfgVars>>

\* Close as it would be if it did not cancel the context.
Close_NoCancel ==
    /\ ~panicked
    /\ closeCalls < MaxCloseCalls
    /\ closeCalls' = closeCalls + 1
    /\ panicked' = (stopSubscriber = 0)
    /\ UNCHANGED <<stopSubscriber, run, ctx, gErr, loop, reported,
                   callerDone, msgVars, cfgVars>>

\* consumer.go:201-206: Close, under c.mu, calls c.stopSubscriber. Calling
\* the nil function value panics.
Close ==
    /\ ~panicked
    /\ closeCalls < MaxCloseCalls
    /\ closeCalls' = closeCalls + 1
    /\ IF stopSubscriber = 0
       THEN /\ panicked' = TRUE
            /\ UNCHANGED ctx
       ELSE /\ ctx' = [ctx EXCEPT ![stopSubscriber] = Cancelled]
            /\ UNCHANGED panicked
    /\ UNCHANGED <<stopSubscriber, run, gErr, loop, reported, callerDone,
                   msgVars, cfgVars>>

\* The caller cancels the context it passed to Run: every context derived
\* from it is cancelled.
CallerCancel ==
    /\ ~panicked
    /\ ~callerDone
    /\ callerDone' = TRUE
    /\ ctx' = [r \in RunCalls |-> IF HasCtx(r) THEN Cancelled ELSE ctx[r]]
    /\ UNCHANGED <<stopSubscriber, run, gErr, loop, reported, closeCalls,
                   panicked, msgVars, cfgVars>>

\* ------------------------------------------------- ConsumerConfig.Validate

\* Values of the fields of a ConsumerConfig: set and unset ones, and for
\* Delivery the two supported types and one that is neither.
Configs ==
    [Topics : {<<>>, <<"sub1", "sub2">>},
     Project : {"", "project"},
     Region : {"", "region"},
     Decoder : {"nil", "decoder"},
     Logger : {"nil", "logger"},
     Processor : {"nil", "processor"},
     Delivery : DeliveryTypes \cup {"unsupported"}]

ErrNoTopic == "pubsublite: at least one topic must be set"
ErrNoProject == "pubsublite: project must be set"
ErrNoRegion == "pubsublite: region must be set"
ErrNoDecoder == "pubsublite: decoder must be set"
ErrNoLogger == "pubsublite: logger must be set"
ErrNoProcessor == "pubsublite: processor must be set"
ErrDelivery == "pubsublite: delivery is not valid"

\* Validate as it would be if it returned at the first violation.
Validate_FailFast(c) ==
    IF Len(c.Topics) = 0 THEN <<ErrNoTopic>>
    ELSE IF c.Project = "" THEN <<ErrNoProject>>
    ELSE IF c.Region = "" THEN <<ErrNoRegion>>
    ELSE IF c.Decoder = "nil" THEN <<ErrNoDecoder>>
    ELSE IF c.Logger = "nil" THEN <<ErrNoLogger>>
    ELSE IF c.Processor = "nil" THEN <<ErrNoProcessor>>
    ELSE IF c.Delivery \notin DeliveryTypes THEN <<ErrDelivery>>
    ELSE <<>>

\* consumer.go:91-120: Validate appends one error per violation, in this
\* order, and returns errors.Join of them, which is nil when there is none.
Validate(c) ==
    (IF Len(c.Topics) = 0 THEN <<ErrNoTopic>> ELSE <<>>)
    \o (IF c.Project = "" THEN <<ErrNoProject>> ELSE <<>>)
    \o (IF c.Region = "" THEN <<ErrNoRegion>> ELSE <<>>)
    \o (IF c.Decoder = "nil" THEN <<ErrNoDecoder>> ELSE <<>>)
    \o (IF c.Logger = "nil" THEN <<ErrNoLogger>> ELSE <<>>)
    \o (IF c.Processor = "nil" THEN <<ErrNoProcessor>> ELSE <<>>)
    \o (IF c.Delivery \in {AtLeastOnceDeliveryType, AtMostOnceDeliveryType}
        THEN <<>> ELSE <<ErrDelivery>>)

\* consumer.go:135: cfg.Validate() is called on the configuration.
ValidateCfg ==
    /\ ~valResult.called
    /\ valResult' = [called |-> TRUE, errs |-> Validate(cfg)]
    /\ UNCHANGED <<cfg, msgVars, runVars>>

\* The configuration of a Consumer that NewConsumer has returned: it has
\* passed Validate, and its Delivery is the consumers' (consumer.go:172).
CfgInit ==
    /\ cfg = [Topics |-> ConsumerOrder, Project |-> "project",
              Region |-> "region", Decoder |-> "decoder",
              Logger |-> "logger", Processor |-> "processor",
              Delivery |-> delivery]
    /\ valResult = [called |-> TRUE, errs |-> <<>>]

\* ---------------------------------------------------------- specifications

Init == MsgInit /\ RunInit /\ CfgInit

\* Message handling: the transport drives up to MaxInFlight invocations of
\* processMessage at once, for any consumer and message.
Next ==
    \/ \E c \in Consumers, id \in MsgIds : Deliver(c, id)
    \/ \E r \in InFlight : DecodeFail(r)
    \/ \E r \in InFlight : DecodeOk(r)
    \/ \E r \in InFlight : SwitchDelivery(r)
    \/ \E r \in InFlight, e \in {"nil", "error"} : ProcessBatch(r, e)
    \/ \E r \in InFlight : DeferredLoadOrStore(r)
    \/ \E r \in InFlight : DeferredNack(r)
    \/ \E r \in InFlight : DeferredDelete(r)
    \/ \E r \in InFlight : DeferredStore(r)
    \/ \E r \in InFlight : DeferredAck(r)
    \/ \E r \in InFlight : Return(r)

Spec == Init /\ [][Next]_vars

\* Redelivery of one message, with the history of its deliveries.
HistNext ==
    \/ HistDeliver
    \/ \E r \in InFlight : DecodeFail(r)
    \/ \E r \in InFlight : DecodeOk(r)
    \/ \E r \in InFlight : SwitchDelivery(r)
    \/ \E r \in InFlight, e \in {"nil", "error"} : ProcessBatch(r, e)
    \/ \E r \in InFlight : DeferredLoadOrStore(r)
    \/ \E r \in InFlight : DeferredNack(r)
    \/ \E r \in InFlight : DeferredDelete(r)
    \/ \E r \in InFlight : DeferredStore(r)
    \/ \E r \in InFlight : DeferredAck(r)
    \/ \E r \in InFlight : HistReturn(r)

HistSpec == Init /\ [][HistNext]_vars

\* Redelivery of one message, following its failures, Acks and Nacks: the
\* message starts with no unresolved failure.
EventInit ==
    /\ delivery \in DeliveryTypes
    /\ failed = [c \in Consumers |-> EmptyMap]
    /\ inv = EmptyBag
    /\ hist = <<>>
    /\ unresolved = "no"
    /\ RunInit
    /\ CfgInit

EventSpec == EventInit /\ [][HistNext]_vars

\* The supervisor: Run, its receive loops, Close.
RunNext ==
    \/ \E r \in RunCalls : RunStart(r)
    \/ \E r \in RunCalls : RunSpawn(r)
    \/ \E r \in RunCalls, c \in Consumers, e \in ReceiveErrs :
          ReceiveReturn(r, c, e)
    \/ \E r \in RunCalls, c \in Consumers : ReceiveCtxDone(r, c)
    \/ \E r \in RunCalls, c \in Consumers : LoopCheck(r, c)
    \/ \E r \in RunCalls : RunWait(r)
    \/ Close
    \/ CallerCancel

RunSpec == Init /\ [][RunNext]_vars

\* Fair scheduling of the goroutines of Run, and a transport whose Receive
\* returns once its context is done. Calls of Run and Close, cancellation by
\* the caller and the other results of Receive are not forced.
RunFairness ==
    /\ \A r \in RunCalls : WF_vars(RunSpawn(r)) /\ WF_vars(RunWait(r))
    /\ \A r \in RunCalls, c \in Consumers :
          WF_vars(LoopCheck(r, c)) /\ SF_vars(ReceiveCtxDone(r, c))

RunLiveSpec == Init /\ [][RunNext]_vars /\ RunFairness

\* Validation of any configuration, before a Consumer exists.
ValInit ==
    /\ MsgInit
    /\ RunInit
    /\ cfg \in Configs
    /\ valResult = [called |-> FALSE, errs |-> <<>>]

ValNext == ValidateCfg

ValSpec == ValInit /\ [][ValNext]_vars

\* -------------------------------------------------------------------- claims

AtLeastOnce == delivery = AtLeastOnceDeliveryType
AtMostOnce == delivery = AtMostOnceDeliveryType

\* Entries k..k+n-1 of hist exist, ran one at a time, and had the outcomes
\* given, the first of them starting with no tracker entry.
Run3(k, o1, o2, o3) ==
    /\ k + 2 <= Len(hist)
    /\ \A j \in k..(k + 2) : hist[j].sequential
    /\ hist[k].before = {}
    /\ hist[k].outcome = o1
    /\ hist[k + 1].outcome = o2
    /\ hist[k + 2].outcome = o3

Quiet(h) == h.acks = 0 /\ h.nacks = 0

\* C1: AtLeastOnce, one delivery of the message at a time, three failures in
\* a row starting with no tracker entry: the 1st and 2nd failure issue
\* neither Ack nor Nack and leave the counts 1 and 2, the 3rd issues Nack
\* (no Ack) and leaves no entry, and a further failure counts from 1 again.
C1_ThreeFailuresNack ==
    AtLeastOnce =>
      \A k \in 1..Len(hist) :
        Run3(k, "fail", "fail", "fail") =>
          /\ Quiet(hist[k]) /\ hist[k].after = {1}
          /\ Quiet(hist[k + 1]) /\ hist[k + 1].after = {2}
          /\ hist[k + 2].acks = 0 /\ hist[k + 2].nacks = 1
          /\ hist[k + 2].after = {}
          /\ (k + 3 <= Len(hist) /\ hist[k + 3].sequential
                /\ hist[k + 3].outcome = "fail")
               => Quiet(hist[k + 3]) /\ hist[k + 3].after = {1}

C1_Witness ==
    /\ AtLeastOnce
    /\ Len(hist) = 4
    /\ Run3(1, "fail", "fail", "fail")
    /\ hist[3].nacks = 1
    /\ hist[4].sequential /\ hist[4].outcome = "fail"
    /\ hist[4].after = {1}

\* C2: AtLeastOnce, one delivery at a time, two failures then a success: no
\* Ack on the first two deliveries, Ack on the third, never a Nack, and no
\* tracker entry once the third delivery has completed.
C2_TwoFailuresThenAck ==
    AtLeastOnce =>
      \A k \in 1..Len(hist) :
        Run3(k, "fail", "fail", "ok") =>
          /\ hist[k].acks = 0 /\ hist[k + 1].acks = 0
          /\ hist[k + 2].acks = 1
          /\ \A j \in k..(k + 2) : hist[j].nacks = 0
          /\ hist[k + 2].after = {}

C2_Witness ==
    /\ AtLeastOnce
    /\ Run3(1, "fail", "fail", "ok")
    /\ hist[2].after = {2}
    /\ hist[3].acks = 1

\* C3: AtLeastOnce, N <= 2 invocations for the same message, all failing, in
\* any interleaving: once all have completed the tracker's count is N.
C3_NoLostIncrement ==
    (/\ AtLeastOnce
     /\ inv = EmptyBag
     /\ Len(hist) \in 1..MaxRetries
     /\ \A k \in 1..Len(hist) : hist[k].outcome = "fail")
      => Entry(failed[FollowedConsumer], FollowedId) = {Len(hist)}

\* C4 as stated: AtMostOnce, every message handled by processMessage is
\* acknowledged exactly once.
C4_EveryMessageAcked ==
    AtMostOnce => \A r \in InFlight : r.pc = "done" => r.acks = 1

\* C4 as amended: AtMostOnce, every message whose payload decodes is
\* acknowledged exactly once, whether the batch processor succeeds or fails
\* (and no message is acknowledged more than once).
C4_DecodedMessageAcked ==
    AtMostOnce =>
      \A r \in InFlight :
        /\ r.acks <= 1
        /\ (r.pc = "done" /\ ~r.decodeErr)
             => r.acks = 1 /\ r.procCalls = 1 /\ r.err \in {"nil", "error"}

C4_Witness ==
    /\ AtMostOnce
    /\ \E r \in InFlight : r.pc = "done" /\ r.err = "error" /\ r.acks = 1
    /\ \E r \in InFlight : r.pc = "done" /\ r.err = "nil" /\ r.acks = 1

\* C5: either delivery type: an invocation whose decode failed has issued
\* one Nack, no Ack, has not called the batch processor, and the step in
\* which it failed left every tracker unchanged.
C5_DecodeFailure ==
    [][\A r \in BagToSet(inv') :
         r.decodeErr =>
           /\ r.pc = "done"
           /\ r.nacks = 1 /\ r.acks = 0 /\ r.procCalls = 0
           /\ CopiesIn(r, inv') > CopiesIn(r, inv) => failed' = failed]_vars

C5_Witness ==
    \E r \in InFlight :
      /\ r.decodeErr /\ r.pc = "done" /\ r.nacks = 1
      /\ failed[r.c] = EmptyMap

\* C6: Close on a Consumer on which Run was never invoked does not panic,
\* and leaves the Consumer as created (no cancellation function stored).
C6_CloseBeforeRun ==
    (closeCalls > 0 /\ \A r \in RunCalls : run[r].pc = "idle")
      => (~panicked /\ stopSubscriber = 0)

Running(q) == run[q].pc \in {"spawn", "wait"}

\* C7: a call of Run made while another Run is in progress returns the
\* "already started" error, starts no loop and changes no state: the stored
\* cancellation function stays that of the Run in progress, and a Close
\* made after such a call cancels the contexts of the first Run.
C7_SecondRunRejected ==
    /\ [][\A r \in RunCalls :
            (run[r].pc = "idle" /\ run'[r].pc # "idle"
               /\ \E q \in RunCalls : Running(q))
              => /\ run'[r] = [IdleRun EXCEPT !.pc = "returned",
                                              !.result = ErrAlreadyStarted]
                 /\ UNCHANGED <<stopSubscriber, ctx, gErr, loop, reported>>
                 /\ Running(stopSubscriber)]_vars
    /\ [][(closeCalls' = closeCalls + 1
             /\ \E r \in RunCalls : run[r].result = ErrAlreadyStarted)
            => ctx'[1] = Cancelled]_vars
    /\ [](\A r \in RunCalls :
            run[r].result = ErrAlreadyStarted
              => \A c \in Consumers : loop[r][c] = NoLoop)

C7_Witness ==
    /\ run[2].result = ErrAlreadyStarted
    /\ Running(1)
    /\ stopSubscriber = 1
    /\ \E c \in Consumers : loop[1][c].pc = "receive"

\* C8: a loop whose Receive returned the backend-unavailable condition calls
\* Receive again; a loop terminates only with something else; Run never
\* returns the backend-unavailable condition.
C8_TransientRetried ==
    [][\A r \in RunCalls :
         /\ ~IsBackendUnavailable(run'[r].result)
         /\ \A c \in Consumers :
              /\ (loop[r][c].pc = "returned"
                    /\ IsBackendUnavailable(loop[r][c].err)
                    /\ loop'[r][c] # loop[r][c])
                   => loop'[r][c].pc = "receive"
              /\ loop'[r][c].pc = "done"
                   => ~IsBackendUnavailable(loop'[r][c].err)]_vars

C8_Witness ==
    \E r \in RunCalls, c \in Consumers :
      /\ loop[r][c].pc = "receive"
      /\ loop[r][c].err = WrappedUnavailable

\* C9: once a loop has returned a non-transient error the context the loops
\* observe is cancelled, and the error Run returns is the first error the
\* loops reported (nil when none did).
C9_FirstErrorWins ==
    \A r \in RunCalls :
      /\ (\E c \in Consumers :
            loop[r][c].pc = "done" /\ loop[r][c].err # "nil")
           => ctx[r].group
      /\ (run[r].pc = "returned" /\ run[r].result # ErrAlreadyStarted)
           => run[r].result =
                IF reported[r] = <<>> THEN "nil" ELSE reported[r][1]

C9_Witness ==
    \E r \in RunCalls :
      /\ run[r].pc = "returned"
      /\ Len(reported[r]) = 2
      /\ reported[r][1] # reported[r][2]
      /\ run[r].result = reported[r][1]

CloseReturned == closeCalls > 0 /\ ~panicked

\* C10: after Close has returned on a started Consumer the contexts of its
\* Run are cancelled, and a Run in progress eventually returns, all its
\* loops having terminated.
C10_CloseStopsRun ==
    /\ [](CloseReturned => ctx[stopSubscriber] = Cancelled)
    /\ \A r \in RunCalls :
         (CloseReturned /\ Running(r))
           ~> (run[r].pc = "returned"
                 /\ \A c \in Consumers : loop[r][c].pc = "done")

C10_Witness ==
    /\ CloseReturned
    /\ run[1].pc = "wait"
    /\ \E c \in Consumers : loop[1][c].pc = "receive"

\* The followed message's tracker entry.
FollowedEntry == Entry(failed[FollowedConsumer], FollowedId)

\* The completed invocations of the followed message that reached the batch
\* processor, and whether the last one to complete was a failure that was
\* not negatively-acknowledged.
Processed == SelectSeq(hist, LAMBDA h : h.outcome # "decodeErr")

UnresolvedAtReturn ==
    /\ Processed # <<>>
    /\ Processed[Len(Processed)].outcome = "fail"
    /\ Processed[Len(Processed)].nacks = 0

\* C11: AtLeastOnce, no invocation in flight: the tracker holds an entry for
\* the message iff it has failed processing and has since been neither
\* acknowledged nor negatively-acknowledged, whatever the interleaving of
\* its deliveries was. "Since" is read in the claim's favour: an entry is
\* wrong only if no failure is unresolved both by the order of the events
\* (unresolved) and by the order in which the invocations returned, and a
\* missing entry is wrong only if a failure is unresolved by both.
C11_EntryIffUnresolved ==
    (AtLeastOnce /\ inv = EmptyBag)
      => /\ (FollowedEntry # {})
              => (unresolved = "yes" \/ UnresolvedAtReturn)
         /\ (FollowedEntry = {})
              => ~(unresolved = "yes" /\ UnresolvedAtReturn)

\* The required items a configuration violates, and the error of each.
Violations(c) ==
    {v \in {"topics", "project", "region", "decoder", "logger", "processor",
            "delivery"} :
       \/ v = "topics" /\ c.Topics = <<>>
       \/ v = "project" /\ c.Project = ""
       \/ v = "region" /\ c.Region = ""
       \/ v = "decoder" /\ c.Decoder = "nil"
       \/ v = "logger" /\ c.Logger = "nil"
       \/ v = "processor" /\ c.Processor = "nil"
       \/ v = "delivery" /\ c.Delivery \notin DeliveryTypes}

ErrorOf(v) ==
    CASE v = "topics" -> ErrNoTopic
      [] v = "project" -> ErrNoProject
      [] v = "region" -> ErrNoRegion
      [] v = "decoder" -> ErrNoDecoder
      [] v = "logger" -> ErrNoLogger
      [] v = "processor" -> ErrNoProcessor
      [] v = "delivery" -> ErrDelivery

\* C12: Validate returns nil iff all seven items are valid, and otherwise an
\* error joining exactly one entry per violated item.
C12_ValidateReportsAll ==
    valResult.called =>
      LET errs == valResult.errs
          bad == Violations(cfg)
      IN /\ (errs = <<>>) <=> (bad = {})
         /\ Len(errs) = Cardinality(bad)
         /\ \A v \in bad : \E i \in 1..Len(errs) : errs[i] = ErrorOf(v)

C12_Witness ==
    /\ valResult.called
    /\ Cardinality(Violations(cfg)) = 7
    /\ Len(valResult.errs) = 7

\* C13: AtLeastOnce, an invocation has issued Ack only if its own call of
\* the batch processor has returned success; an invocation whose call
\* failed has issued no Ack.
C13_AckOnlyAfterSuccess ==
    AtLeastOnce =>
      \A r \in InFlight :
        /\ r.acks > 0 => (r.err = "nil" /\ r.procCalls = 1)
        /\ r.err = "error" => r.acks = 0

C13_Witness ==
    /\ AtLeastOnce
    /\ \E r \in InFlight : r.pc = "done" /\ r.err = "nil" /\ r.acks = 1
    /\ \E r \in InFlight : r.pc = "done" /\ r.err = "error" /\ r.acks = 0

\* C14: AtMostOnce, a decoded message has been acked when the batch
\* processor is invoked, and a failure of the batch processor is followed by
\* no Nack and no change of the trackers, which stay empty.
C14_AckBeforeProcess ==
    AtMostOnce =>
      /\ \A r \in InFlight :
           /\ r.pc = "process" => (r.acks = 1 /\ r.procCalls = 0)
           /\ r.procCalls > 0 => r.acks = 1
           /\ r.err = "error" => (r.nacks = 0 /\ r.pc = "done")
      /\ \A c \in Consumers : failed[c] = EmptyMap

C14_Witness ==
    /\ AtMostOnce
    /\ \E r \in InFlight :
         r.pc = "done" /\ r.err = "error" /\ r.acks = 1 /\ r.nacks = 0

\* C15: once Run has been called, the stored cancellation function is that
\* of the first call for good, and every later call of Run has returned the
\* "already started" error and started no loop, whether or not Close was
\* called or the first Run has returned.
C15_NeverBackToCreated ==
    /\ run[1].pc # "idle" => stopSubscriber = 1
    /\ \A r \in RunCalls :
         (r > 1 /\ run[r].pc # "idle")
           => /\ run[r] = [IdleRun EXCEPT !.pc = "returned",
                                          !.result = ErrAlreadyStarted]
              /\ \A c \in Consumers : loop[r][c] = NoLoop
              /\ ctx[r] = NoCtx

C15_Witness ==
    /\ closeCalls > 0
    /\ run[1].pc = "returned"
    /\ run[2].result = ErrAlreadyStarted

\* C16: AtLeastOnce, a delivery handled alone whose batch processor
\* succeeds logs the recovery notice only if the tracker held an entry for
\* the message when the delivery began; it is acked either way.
C16_NoticeOnlyAfterFailure ==
    AtLeastOnce =>
      \A k \in 1..Len(hist) :
        (hist[k].sequential /\ hist[k].outcome = "ok")
          => /\ hist[k].acks = 1
             /\ hist[k].recov > 0 => hist[k].before # {}

\* A step of processMessage is a step of the invocation r exactly when r has
\* fewer copies in flight after it.
StepOf(r) == CopiesIn(r, inv') < CopiesIn(r, inv)

\* C17: every step that changes the tracker entry of an identifier in a
\* consumer is a step of an invocation handling that identifier in that
\* consumer.
C17_OwnEntryOnly ==
    [][\A c \in Consumers, id \in MsgIds :
         Entry(failed'[c], id) # Entry(failed[c], id)
           => \E r \in InFlight : r.c = c /\ r.id = id /\ StepOf(r)]_vars

C17_Witness ==
    /\ Entry(failed["sub1"], "m1") = {2}
    /\ Entry(failed["sub1"], "m2") = {1}
    /\ Entry(failed["sub2"], "m1") = {}
    /\ \E r \in InFlight : r.c = "sub2" /\ r.id = "m1" /\ r.pc = "done"

\* C18: every count in a tracker is 1 or 2.
C18_CountInRange ==
    \A c \in Consumers, id \in MsgIds : Entry(failed[c], id) \subseteq {1, 2}

C18_Witness ==
    \E r1, r2 \in InFlight :
      /\ r1 # r2 /\ r1.c = r2.c /\ r1.id = r2.id
      /\ r1.pc = "done" /\ r1.attempt = 2
      /\ r2.pc = "nack" /\ r2.attempt = 3
      /\ Entry(failed[r1.c], r1.id) = {2}

\* C19: an invocation issues at most one of Ack and Nack, at most once.
C19_AtMostOneAckOrNack ==
    \A r \in InFlight : r.acks + r.nacks <= 1

C19_Witness ==
    /\ \E r \in InFlight : r.pc = "done" /\ r.acks = 1 /\ r.nacks = 0
    /\ \E r \in InFlight : r.pc = "done" /\ r.acks = 0 /\ r.nacks = 1

\* C20: a Run that has returned has no loop still running: every loop the
\* first Run started has terminated, and a rejected Run started none.
C20_ReturnAfterLoops ==
    \A r \in RunCalls :
      run[r].pc = "returned"
        => \A c \in Consumers :
             loop[r][c].pc = IF run[r].result = ErrAlreadyStarted
                             THEN "none" ELSE "done"

C20_Witness ==
    /\ run[1].pc = "returned"
    /\ run[1].result \notin {"nil", ErrAlreadyStarted}
    /\ Len(reported[1]) = 2

====
